---- MODULE Spec2Model ----
(***************************************************************************)
(* Model of main.py: the requirement parser (module level, lines 101-111)  *)
(* and the optimization engine optimize_ores (lines 34-81).                *)
(*                                                                         *)
(* Numbers.  Python floats are modelled as exact rationals <<n, d>> with   *)
(* d > 0 in lowest terms; prices are whole numbers.  The GLOP solver is    *)
(* modelled by what it returns: status INFEASIBLE when the constraint set  *)
(* is empty, otherwise status OPTIMAL together with one optimal basic      *)
(* solution (vertex) of the linear program, chosen nondeterministically    *)
(* among all optimal vertices.  Solver tolerances are not modelled.        *)
(***************************************************************************)
EXTENDS Integers, Sequences, FiniteSets, TLC

VARIABLES
    lines,                 \* input_text.split('\n'), each line already split()
    line_no,               \* position of the parsing loop in lines
    parse_pc,              \* "parsing" | "parsed" | "ValueError"
    mineral_requirements,  \* dict mineral id -> required quantity
    ore_data,              \* dict ore id -> [minerals: dict mineral id -> quantity]
    market_data,           \* dict str(ore id) -> price feed entry
    efficiency,            \* rational <<n, d>>
    status,                \* "NOT_SOLVED" | "OPTIMAL" | "INFEASIBLE"
    ore_vars,              \* ore id -> solution_value(), a rational
    result,                \* sequence of <<ore id, refined_amount>>
    total_cost,            \* running total of the line costs
    pc                     \* position inside optimize_ores

vars == <<lines, line_no, parse_pc, mineral_requirements, ore_data, market_data,
          efficiency, status, ore_vars, result, total_cost, pc>>

parse_vars == <<lines, line_no, parse_pc>>

-----------------------------------------------------------------------------
(* Bounds of the model *)

MaxYield == 2
MaxPrice == 2
MaxReq == 1
MaxLines == 2
MaxYieldStepsA == 2
MaxReqStepsA == 2
MaxPriceA == 5
MaxRaise == 1
MaxK == 2

-----------------------------------------------------------------------------
(* Exact rational arithmetic standing for Python float arithmetic *)

Abs(n) == IF n < 0 THEN -n ELSE n

RECURSIVE GCD(_, _)
GCD(a, b) == IF b = 0 THEN a ELSE GCD(b, a % b)

Rat(n, d) ==
    LET s == IF d < 0 THEN -1 ELSE 1
        g == GCD(Abs(n), Abs(d))
    IN  <<(s * n) \div g, (s * d) \div g>>

Zero == <<0, 1>>

RLeq(a, b) ==
    LET g == GCD(a[2], b[2])
    IN  a[1] * (b[2] \div g) <= b[1] * (a[2] \div g)

RLt(a, b) == ~RLeq(b, a)

RAdd(a, b) ==
    LET g == GCD(a[2], b[2])
    IN  Rat(a[1] * (b[2] \div g) + b[1] * (a[2] \div g), a[2] * (b[2] \div g))

RMul(a, b) ==
    LET p == Rat(a[1], b[2])
        q == Rat(b[1], a[2])
    IN  <<p[1] * q[1], p[2] * q[2]>>

RScale(k, a) == RMul(<<k, 1>>, a)

\* math.ceil
ceil(a) == -((-a[1]) \div a[2])

\* sorted enumeration of a finite set of integers
RECURSIVE SetToSeq(_)
SetToSeq(S) ==
    IF S = {} THEN <<>>
    ELSE LET m == CHOOSE x \in S : \A y \in S : x <= y
         IN  <<m>> \o SetToSeq(S \ {m})

RECURSIVE RSum(_, _)
RSum(f, S) ==
    IF S = {} THEN Zero
    ELSE LET x == CHOOSE y \in S : TRUE
         IN  RAdd(f[x], RSum(f, S \ {x}))

-----------------------------------------------------------------------------
(* The price feed and the catalog *)

OreIds == {1, 2}
MineralIds == {34, 35}

\* str(ore_id)
str(ore_id) == ToString(ore_id)

\* line 49: the guard under which an ore gets an objective coefficient
HasPrice(md, ore_id) ==
    /\ str(ore_id) \in DOMAIN md
    /\ "sell" \in DOMAIN md[str(ore_id)]
    /\ "weightedAverage" \in DOMAIN md[str(ore_id)]["sell"]

\* line 50: float(market_data[str(ore_id)]['sell']['weightedAverage'])
Price(md, ore_id) == md[str(ore_id)]["sell"]["weightedAverage"]

\* lines 48-51: the objective coefficient of an ore's variable
ObjectiveCoefficient(md, ore_id) ==
    IF HasPrice(md, ore_id) THEN Price(md, ore_id) ELSE 0

\* mutant: the efficiency factor is forgotten
ConstraintCoefficient_no_efficiency(od, eff, mineral_id, ore_id) ==
    IF mineral_id \in DOMAIN od[ore_id].minerals
    THEN <<od[ore_id].minerals[mineral_id], 1>>
    ELSE Zero

\* lines 60-61: the coefficient of an ore's variable in a mineral's constraint
ConstraintCoefficient(od, eff, mineral_id, ore_id) ==
    IF mineral_id \in DOMAIN od[ore_id].minerals
    THEN RScale(od[ore_id].minerals[mineral_id], eff)
    ELSE Zero

\* mutant: the lower bound is one unit short of the requirement
ConstraintLowerBound_short(req, mineral_id) == req[mineral_id] - 1

\* line 58: the lower bound of a mineral's constraint
ConstraintLowerBound(req, mineral_id) == req[mineral_id]

-----------------------------------------------------------------------------
(* The linear program built by lines 42-61 and what solver.Solve() returns *)

RNeg(a) == <<-a[1], a[2]>>

RDiv(a, b) == RMul(a, Rat(b[2], b[1]))

\* M without its first row and its j-th column
Minor(M, j) ==
    [i \in 1..(Len(M) - 1) |->
        [c \in 1..(Len(M) - 1) |-> IF c < j THEN M[i + 1][c] ELSE M[i + 1][c + 1]]]

RECURSIVE Det(_)
RECURSIVE DetRow(_, _)
\* the terms j..n of the expansion of Det(M) along the first row
DetRow(M, j) ==
    IF j > Len(M) THEN Zero
    ELSE LET t == RMul(M[1][j], Det(Minor(M, j)))
         IN  RAdd(IF j % 2 = 1 THEN t ELSE RNeg(t), DetRow(M, j + 1))

Det(M) == IF Len(M) = 0 THEN <<1, 1>> ELSE DetRow(M, 1)

\* line 44: IntVar(0, infinity); GLOP solves the continuous relaxation
VarLowerBound == 0

\* the left-hand side of a mineral's constraint at the point x
ConstraintValue(od, eff, mineral_id, x) ==
    RSum([o \in DOMAIN od |->
            RMul(ConstraintCoefficient(od, eff, mineral_id, o), x[o])], DOMAIN od)

\* mutant: a constraint is only made for a mineral that some ore yields
Feasible_yielded_only(od, req, eff, x) ==
    /\ \A o \in DOMAIN od : RLeq(<<VarLowerBound, 1>>, x[o])
    /\ \A m \in DOMAIN req :
          (\E o \in DOMAIN od : m \in DOMAIN od[o].minerals) =>
              RLeq(<<ConstraintLowerBound(req, m), 1>>, ConstraintValue(od, eff, m, x))

\* x satisfies the variable bounds (line 44) and every constraint (line 58)
Feasible(od, req, eff, x) ==
    /\ \A o \in DOMAIN od : RLeq(<<VarLowerBound, 1>>, x[o])
    /\ \A m \in DOMAIN req :
          RLeq(<<ConstraintLowerBound(req, m), 1>>, ConstraintValue(od, eff, m, x))

\* the value of the objective (lines 47-53) at the point x
ObjectiveValue(od, md, x) ==
    RSum([o \in DOMAIN od |-> RScale(ObjectiveCoefficient(md, o), x[o])], DOMAIN od)

\* The basic solution in which the constraints of the minerals T hold with
\* equality, the variables of the ores S are basic and all other variables
\* sit at their lower bound (Cramer's rule).  S and T are sequences of the
\* same length.
BasisMatrix(od, eff, S, T) ==
    [i \in 1..Len(T) |->
        [j \in 1..Len(S) |-> ConstraintCoefficient(od, eff, T[i], S[j])]]

ReplaceColumn(M, j, b) ==
    [i \in 1..Len(M) |-> [c \in 1..Len(M) |-> IF c = j THEN b[i] ELSE M[i][c]]]

BasicSolution(od, req, eff, S, T) ==
    LET M == BasisMatrix(od, eff, S, T)
        b == [i \in 1..Len(T) |-> <<ConstraintLowerBound(req, T[i]), 1>>]
        d == Det(M)
    IN  [o \in DOMAIN od |->
            IF \E j \in 1..Len(S) : S[j] = o
            THEN LET j == CHOOSE k \in 1..Len(S) : S[k] = o
                 IN  RDiv(Det(ReplaceColumn(M, j, b)), d)
            ELSE <<VarLowerBound, 1>>]

\* the bases: as many basic ore variables as tight constraints, and the
\* matrix of their coefficients regular
Bases(od, req, eff) ==
    { C \in (SUBSET DOMAIN od) \X (SUBSET DOMAIN req) :
        /\ Cardinality(C[1]) = Cardinality(C[2])
        /\ Det(BasisMatrix(od, eff, SetToSeq(C[1]), SetToSeq(C[2])))[1] # 0 }

\* the vertices of the feasible region
Vertices(od, req, eff) ==
    { x \in { BasicSolution(od, req, eff, SetToSeq(C[1]), SetToSeq(C[2])) :
                C \in Bases(od, req, eff) } : Feasible(od, req, eff, x) }

\* mutant: the objective is maximised over the vertices
OptimalVertices_max(od, md, V) ==
    { x \in V : \A y \in V : RLeq(ObjectiveValue(od, md, y), ObjectiveValue(od, md, x)) }

\* the vertices among V at which the objective is minimal
OptimalVertices(od, md, V) ==
    { x \in V : \A y \in V : RLeq(ObjectiveValue(od, md, x), ObjectiveValue(od, md, y)) }

\* line 64: the status solver.Solve() returns; the objective is bounded
\* below because no coefficient and no variable is negative
SolveStatus(V) == IF V = {} THEN "INFEASIBLE" ELSE "OPTIMAL"

-----------------------------------------------------------------------------
(* Reporting, lines 67-81 *)

\* mutant: the amount is taken for physical units and rounded to a batch
refined_amount_units(ore_amount) == ceil(<<ore_amount[1], ore_amount[2] * 100>>) * 100

\* mutant: the amount is rounded down
refined_amount_floor(ore_amount) == (ore_amount[1] \div ore_amount[2]) * 100

\* line 75: Round up to the nearest 100
refined_amount(ore_amount) == ceil(ore_amount) * 100

\* mutant: an ore is listed when its amount is >= 0
IsSelected_ge(ore_amount) == RLeq(Zero, ore_amount)

\* line 73: the test that decides whether an ore is listed
IsSelected(ore_amount) == RLt(Zero, ore_amount)

\* line 76: the line cost; the lookup raises KeyError when the price is missing
LookupRaises(md, ore_id) == ~HasPrice(md, ore_id)

LineCost(md, ore_id, ore_amount) == refined_amount(ore_amount) * Price(md, ore_id)

\* lines 69-77: the loop over ore_vars from position k of the iteration order on
RECURSIVE ReportFrom(_, _, _, _)
ReportFrom(order, md, x, k) ==
    IF k > Len(order) THEN [raised |-> FALSE, result |-> <<>>, total_cost |-> 0]
    ELSE LET o == order[k]
             rest == ReportFrom(order, md, x, k + 1)
         IN  IF ~IsSelected(x[o]) THEN rest
             ELSE IF LookupRaises(md, o)
                  THEN [raised |-> TRUE, result |-> <<>>, total_cost |-> 0]
                  ELSE [raised |-> rest.raised,
                        result |-> <<<<o, refined_amount(x[o])>>>> \o rest.result,
                        total_cost |-> LineCost(md, o, x[o]) + rest.total_cost]

\* dict iteration order of ore_vars: the order of insertion at lines 43-44
IterationOrder(od) == SetToSeq(DOMAIN od)

-----------------------------------------------------------------------------
(* Inputs *)

\* line 34: efficiency=0.739
DefaultEfficiency == <<739, 1000>>

NoLoss == <<1, 1>>

\* load_data, lines 13-18: an ore enters ore_data with at least one mineral row
YieldTables(maxYield) ==
    UNION { [D -> 1..maxYield] : D \in (SUBSET MineralIds) \ {{}} }

Catalogs(ids, maxYield) == [ids -> [minerals : YieldTables(maxYield)]]

\* get_market_data, lines 27-32: entries of the JSON answer
Priced(p) == [sell |-> [weightedAverage |-> p]]
NoWeightedAverage == [sell |-> <<>>]
NoSell == [buy |-> <<>>]

\* the answers for the requested ids; a complete answer has every id
Feeds(ids, entries, complete) ==
    UNION { [{str(o) : o \in D} -> entries] :
              D \in IF complete THEN {ids} ELSE SUBSET ids }

\* what the parser (lines 101-111) can leave in mineral_requirements
Requirements(quantities) ==
    UNION { [D -> quantities] : D \in SUBSET MineralIds }

\* the state on entry to optimize_ores (line 124), the text already parsed
InitWith(catalogs, entries, complete, requirements, efficiencies) ==
    /\ lines = <<>>
    /\ line_no = 1
    /\ parse_pc = "parsed"
    /\ ore_data \in catalogs
    /\ market_data \in Feeds(DOMAIN ore_data, entries, complete)
    /\ mineral_requirements \in requirements
    /\ efficiency \in efficiencies
    /\ status = "NOT_SOLVED"
    /\ ore_vars = [o \in DOMAIN ore_data |-> Zero]
    /\ result = <<>>
    /\ total_cost = 0
    /\ pc = "optimize"

\* Catalogs of one or two ores, feeds with prices from 1 up and with each
\* kind of unusable entry, targets that are absent, 0 or positive, and the
\* efficiency line 124 passes (the default)
Init ==
    InitWith(Catalogs({1}, MaxYield) \cup Catalogs(OreIds, MaxYield),
             {Priced(p) : p \in 1..MaxPrice} \cup {NoWeightedAverage, NoSell},
             FALSE,
             Requirements(0..MaxReq),
             {DefaultEfficiency})

-----------------------------------------------------------------------------
(* optimize_ores *)

\* lines 36-64: build the program and solve it
Solve ==
    /\ pc = "optimize"
    /\ LET V == Vertices(ore_data, mineral_requirements, efficiency)
       IN  /\ status' = SolveStatus(V)
           /\ IF V = {}
              THEN ore_vars' = ore_vars
              ELSE ore_vars' \in OptimalVertices(ore_data, market_data, V)
    /\ pc' = "solved"
    /\ UNCHANGED <<parse_vars, mineral_requirements, ore_data, market_data,
                   efficiency, result, total_cost>>

\* lines 67-79: the plan and its total cost; a KeyError at line 76 leaves
\* optimize_ores and is caught at line 125
ReportPlan ==
    /\ pc = "solved"
    /\ status = "OPTIMAL"
    /\ LET r == ReportFrom(IterationOrder(ore_data), market_data, ore_vars, 1)
       IN  IF r.raised
           THEN /\ pc' = "KeyError"
                /\ UNCHANGED <<result, total_cost>>
           ELSE /\ pc' = "done"
                /\ result' = r.result
                /\ total_cost' = r.total_cost
    /\ UNCHANGED <<parse_vars, mineral_requirements, ore_data, market_data,
                   efficiency, status, ore_vars>>

\* lines 80-81: "The solver could not find an optimal solution."
ReportNoSolution ==
    /\ pc = "solved"
    /\ status # "OPTIMAL"
    /\ pc' = "no_solution"
    /\ UNCHANGED <<parse_vars, mineral_requirements, ore_data, market_data,
                   efficiency, status, ore_vars, result, total_cost>>

Next == Solve \/ ReportPlan \/ ReportNoSolution

Spec == Init /\ [][Next]_vars

\* Inputs around the single-LotType scenario: one ore, yields in steps of 5,
\* requirements in steps of 475, efficiency 1.0 or the default
InitA ==
    InitWith([{1} -> [minerals : UNION { [D -> {5 * k : k \in 1..MaxYieldStepsA}] :
                                          D \in (SUBSET MineralIds) \ {{}} }]],
             {Priced(p) : p \in 1..MaxPriceA} \cup {NoWeightedAverage},
             FALSE,
             Requirements({475 * k : k \in 0..MaxReqStepsA}),
             {NoLoss, DefaultEfficiency})

SpecA == InitA /\ [][Next]_vars

\* Inputs for comparing runs: two ores, every ore priced, a target for
\* every mineral (a target of 0 imposes nothing)
InitPriced ==
    InitWith(Catalogs(OreIds, MaxYield),
             {Priced(p) : p \in 1..MaxPrice},
             TRUE,
             [MineralIds -> 0..MaxReq],
             {DefaultEfficiency})

SpecPriced == InitPriced /\ [][Next]_vars

-----------------------------------------------------------------------------
(* The requirement parser, lines 90-111.  A token is the sequence of its    *)
(* characters; a line is the sequence of tokens line.split() returns.      *)

Tritanium == <<"T", "r", "i", "t", "a", "n", "i", "u", "m">>
Pyerite == <<"P", "y", "e", "r", "i", "t", "e">>
Mexallon == <<"M", "e", "x", "a", "l", "l", "o", "n">>
Isogen == <<"I", "s", "o", "g", "e", "n">>
Nocxium == <<"N", "o", "c", "x", "i", "u", "m">>
Zydrine == <<"Z", "y", "d", "r", "i", "n", "e">>
Megacyte == <<"M", "e", "g", "a", "c", "y", "t", "e">>
Morphite == <<"M", "o", "r", "p", "h", "i", "t", "e">>
Unobtainium == <<"U", "n", "o", "b", "t", "a", "i", "n", "i", "u", "m">>

\* lines 90-99
minerals ==
    (Tritanium :> 34) @@
    (Pyerite :> 35) @@
    (Mexallon :> 36) @@
    (Isogen :> 37) @@
    (Nocxium :> 38) @@
    (Zydrine :> 39) @@
    (Megacyte :> 40) @@
    (Morphite :> 11399)

Digits == {"0", "1", "2", "3", "4", "5", "6", "7", "8", "9"}

DigitValue(c) == CHOOSE v \in 0..9 : ToString(v) = c

\* parts[1].replace(",", "")
replace_commas(token) == SelectSeq(token, LAMBDA c : c # ",")

\* the digits of a literal, its sign removed
Magnitude(text) ==
    IF text # <<>> /\ text[1] \in {"-", "+"} THEN Tail(text) ELSE text

\* int(text) raises ValueError unless text is an optional sign and digits
IntRaises(text) ==
    \/ Magnitude(text) = <<>>
    \/ \E i \in 1..Len(Magnitude(text)) : Magnitude(text)[i] \notin Digits

RECURSIVE DecimalValue(_)
DecimalValue(digits) ==
    IF digits = <<>> THEN 0
    ELSE 10 * DecimalValue(SubSeq(digits, 1, Len(digits) - 1))
            + DigitValue(digits[Len(digits)])

\* int(text)
int(text) ==
    IF text[1] = "-" THEN -DecimalValue(Magnitude(text))
    ELSE DecimalValue(Magnitude(text))

\* line 111: mineral_requirements[key] = quantity
Store(d, key, quantity) ==
    [k \in DOMAIN d \cup {key} |-> IF k = key THEN quantity ELSE d[k]]

\* the texts a user may type as the second token of a line
QuantityTexts ==
    { <<"5">>, <<"1", "0">>, <<"1", ",", "0", "0", "0">>, <<"-", "5">>,
      <<"x">>, <<"1", ".", "5">>, <<",">>, Pyerite }

NameTexts == {Tritanium, Pyerite, Unobtainium}

InputLines ==
    {<<>>} \cup {<<n>> : n \in NameTexts}
           \cup {<<n, q>> : n \in NameTexts, q \in QuantityTexts}
           \cup {<<n, <<"5">>, <<"x">>>> : n \in NameTexts}

InputTexts == UNION { [1..n -> InputLines] : n \in 0..MaxLines }

\* the state when the script reaches line 101
InitParse ==
    /\ lines \in InputTexts
    /\ line_no = 1
    /\ parse_pc = "parsing"
    /\ mineral_requirements = <<>>
    /\ ore_data = <<>>
    /\ market_data = <<>>
    /\ efficiency = DefaultEfficiency
    /\ status = "NOT_SOLVED"
    /\ ore_vars = <<>>
    /\ result = <<>>
    /\ total_cost = 0
    /\ pc = "parse"

opt_vars == <<ore_data, market_data, efficiency, status, ore_vars, result,
              total_cost, pc>>

\* lines 104-111: one pass of the loop body
ParseLine ==
    /\ parse_pc = "parsing"
    /\ line_no <= Len(lines)
    /\ LET parts == lines[line_no]
       IN  IF Len(parts) >= 2
           THEN IF IntRaises(replace_commas(parts[2]))
                THEN /\ parse_pc' = "ValueError"
                     /\ UNCHANGED <<line_no, mineral_requirements>>
                ELSE /\ line_no' = line_no + 1
                     /\ mineral_requirements' =
                           IF parts[1] \in DOMAIN minerals
                           THEN Store(mineral_requirements, minerals[parts[1]],
                                      int(replace_commas(parts[2])))
                           ELSE mineral_requirements
                     /\ UNCHANGED parse_pc
           ELSE /\ line_no' = line_no + 1
                /\ UNCHANGED <<parse_pc, mineral_requirements>>
    /\ UNCHANGED <<lines, opt_vars>>

\* the loop of line 104 is exhausted
ParseDone ==
    /\ parse_pc = "parsing"
    /\ line_no > Len(lines)
    /\ parse_pc' = "parsed"
    /\ UNCHANGED <<lines, line_no, mineral_requirements, opt_vars>>

NextParse == ParseLine \/ ParseDone

SpecParse == InitParse /\ [][NextParse]_vars

-----------------------------------------------------------------------------
(* Properties *)

Ores == DOMAIN ore_data

\* the target of a mineral: 0 when the mineral is absent
Target(req, m) == IF m \in DOMAIN req THEN req[m] ELSE 0

\* the ores whose yield table has an entry for the mineral
Yielding(m) == { o \in Ores : m \in DOMAIN ore_data[o].minerals }

Listed == { result[i][1] : i \in 1..Len(result) }

QuantityListed(o) ==
    IF o \in Listed
    THEN LET i == CHOOSE j \in 1..Len(result) : result[j][1] = o IN result[i][2]
    ELSE 0

\* sum over the ores of amount * yield * efficiency, for the mineral m
RealizedOutput(m, amount) ==
    RSum([o \in Ores |->
            IF o \in Yielding(m)
            THEN RMul(RScale(ore_data[o].minerals[m], efficiency), amount[o])
            ELSE Zero], Ores)

\* the solutions the solver may return for the requirement set req
Solutions(req) ==
    OptimalVertices(ore_data, market_data, Vertices(ore_data, req, efficiency))

\* the requirement sets equal to req except that one target is larger
RaisedOnce(req) ==
    { Store(req, mq[1], mq[2]) :
        mq \in { c \in MineralIds \X (1..(MaxReq + MaxRaise)) : c[2] > Target(req, c[1]) } }

Scaled(k, req) == [m \in DOMAIN req |-> k * req[m]]

\* C1: whenever the solver's status is Optimal, every ore with a decision
\* value > 0 has a usable price entry in the price feed.
C1_SelectedOresArePriced ==
    status = "OPTIMAL" =>
        \A o \in Ores : RLt(Zero, ore_vars[o]) => HasPrice(market_data, o)

\* C2: when the only ore yielding a mineral with a positive requirement has
\* no usable price, the run ends in the no-solution outcome: the status is
\* never Optimal and no lookup error is raised while computing line costs.
OnlySupplierUnpriced ==
    \E m \in DOMAIN mineral_requirements : \E o \in Ores :
        /\ mineral_requirements[m] > 0
        /\ Yielding(m) = {o}
        /\ ~HasPrice(market_data, o)

C2_UnpricedOnlySupplierIsInfeasible ==
    OnlySupplierUnpriced =>
        /\ status # "OPTIMAL"
        /\ pc \in {"optimize", "solved", "no_solution"}

\* C3 as stated: in the single-LotType scenario the decision value is 95 and
\* the plan lists the ore with quantity 100 and total cost 100 * price.
ScenarioA ==
    /\ Ores = {1}
    /\ ore_data[1].minerals = (34 :> 10)
    /\ HasPrice(market_data, 1) /\ Price(market_data, 1) = 5
    /\ mineral_requirements = (34 :> 950)
    /\ efficiency = NoLoss

C3_ScenarioQuantity100 ==
    (ScenarioA /\ pc = "done") =>
        /\ ore_vars[1] = <<95, 1>>
        /\ result = <<<<1, 100>>>>
        /\ total_cost = 100 * 5

\* C3 amended: in the single-LotType scenario the run ends with a plan, the
\* decision value is 95, and the plan lists the ore with quantity
\* ceil(95) * 100 = 9500 and total cost 9500 * price.
C3_ScenarioQuantity9500 ==
    ScenarioA =>
        /\ pc \in {"optimize", "solved", "done"}
        /\ pc # "optimize" => (status = "OPTIMAL" /\ ore_vars[1] = <<95, 1>>)
        /\ pc = "done" => (result = <<<<1, 9500>>>> /\ total_cost = 9500 * 5)

C3_Witness == ScenarioA /\ pc = "done"

\* C4: when every target is 0 or absent, the run ends with a plan that lists
\* no ore and has total cost 0, whatever the catalog and the price feed.
AllTargetsZero == \A m \in DOMAIN mineral_requirements : mineral_requirements[m] = 0

C4_ZeroTargetsEmptyPlan ==
    AllTargetsZero =>
        /\ pc \in {"optimize", "solved", "done"}
        /\ pc # "optimize" => status = "OPTIMAL"
        /\ pc = "done" => (result = <<>> /\ total_cost = 0)

C4_Witness ==
    /\ AllTargetsZero
    /\ DOMAIN mineral_requirements # {}
    /\ \E o \in Ores : ~HasPrice(market_data, o)
    /\ pc = "done"

\* C5: when a mineral with a positive target is yielded by no ore of the
\* catalog, the status is never Optimal and the run ends in the no-solution
\* outcome.
UnyieldedMineralRequired ==
    \E m \in DOMAIN mineral_requirements :
        mineral_requirements[m] > 0 /\ Yielding(m) = {}

C5_UnyieldedMineralIsInfeasible ==
    UnyieldedMineralRequired =>
        /\ status # "OPTIMAL"
        /\ pc \in {"optimize", "solved", "no_solution"}

C5_Witness ==
    /\ UnyieldedMineralRequired
    /\ \E m \in DOMAIN mineral_requirements :
          mineral_requirements[m] > 0 /\ Yielding(m) # {}
    /\ pc = "no_solution"

\* C6: in a returned plan every listed quantity is strictly positive and
\* divisible by 100, and an ore is listed iff its decision value is > 0.
C6_ListedQuantities ==
    pc = "done" =>
        /\ \A i \in 1..Len(result) : result[i][2] > 0 /\ result[i][2] % 100 = 0
        /\ \A o \in Ores : o \in Listed <=> RLt(Zero, ore_vars[o])

C6_Witness ==
    /\ pc = "done"
    /\ \E o \in Ores : o \in Listed /\ ore_vars[o][2] # 1
    /\ \E o \in Ores : o \notin Listed

\* C7 as stated: raising one target never lowers the total cost reported.
C7_ReportedCostMonotone ==
    pc = "done" =>
        \A req \in RaisedOnce(mineral_requirements) : \A x \in Solutions(req) :
            LET r == ReportFrom(IterationOrder(ore_data), market_data, x, 1)
            IN  ~r.raised => r.total_cost >= total_cost

\* C7 amended: raising one target never lowers the optimal objective value,
\* the sum over the priced ores of price * decision value before rounding.
C7_ObjectiveMonotone ==
    (pc = "solved" /\ status = "OPTIMAL") =>
        \A req \in RaisedOnce(mineral_requirements) : \A x \in Solutions(req) :
            RLeq(ObjectiveValue(ore_data, market_data, ore_vars),
                 ObjectiveValue(ore_data, market_data, x))

C7_Witness ==
    /\ pc = "done"
    /\ \E req \in RaisedOnce(mineral_requirements) : \E x \in Solutions(req) :
          RLt(ObjectiveValue(ore_data, market_data, ore_vars),
              ObjectiveValue(ore_data, market_data, x))
    /\ \E req \in RaisedOnce(mineral_requirements) : \E x \in Solutions(req) :
          LET r == ReportFrom(IterationOrder(ore_data), market_data, x, 1)
          IN  ~r.raised /\ r.total_cost < total_cost

\* C8: the optimal objective value for the requirements k * r is at most k
\* times the optimal objective value for r, for every positive integer k.
C8_ScalingLaw ==
    (pc = "solved" /\ status = "OPTIMAL") =>
        \A k \in 1..MaxK : \A x \in Solutions(Scaled(k, mineral_requirements)) :
            RLeq(ObjectiveValue(ore_data, market_data, x),
                 RScale(k, ObjectiveValue(ore_data, market_data, ore_vars)))

C8_Witness ==
    /\ pc = "solved"
    /\ status = "OPTIMAL"
    /\ RLt(Zero, ObjectiveValue(ore_data, market_data, ore_vars))
    /\ \A k \in 1..MaxK : Solutions(Scaled(k, mineral_requirements)) # {}

\* C9: parsing always completes, and the mapping holds for each known
\* mineral the quantity of the last well-formed line naming it; unknown
\* names and malformed lines add nothing and do not abort parsing.
WellFormed(line) ==
    /\ Len(line) >= 2
    /\ line[1] \in DOMAIN minerals
    /\ ~IntRaises(replace_commas(line[2]))

LastWellFormed(id) ==
    LET S == { i \in 1..Len(lines) : WellFormed(lines[i]) /\ minerals[lines[i][1]] = id }
    IN  CHOOSE i \in S : \A j \in S : j <= i

ExpectedRequirements ==
    [id \in { minerals[lines[i][1]] : i \in { j \in 1..Len(lines) : WellFormed(lines[j]) } }
        |-> int(replace_commas(lines[LastWellFormed(id)][2]))]

C9_ParsingIgnoresMalformedLines ==
    /\ parse_pc # "ValueError"
    /\ parse_pc = "parsed" => mineral_requirements = ExpectedRequirements

\* C10: whenever the status is Optimal, every mineral with a positive
\* requirement is covered by the decision values, and in a returned plan it
\* is still covered by the quantities the plan lists.
C10_RequirementsCovered ==
    /\ status = "OPTIMAL" =>
          \A m \in DOMAIN mineral_requirements :
              mineral_requirements[m] > 0 =>
                  RLeq(<<mineral_requirements[m], 1>>, RealizedOutput(m, ore_vars))
    /\ pc = "done" =>
          \A m \in DOMAIN mineral_requirements :
              mineral_requirements[m] > 0 =>
                  RLeq(<<mineral_requirements[m], 1>>,
                       RealizedOutput(m, [o \in Ores |-> <<QuantityListed(o), 1>>]))

C10_Witness ==
    /\ pc = "done"
    /\ \E m \in DOMAIN mineral_requirements :
          /\ mineral_requirements[m] > 0
          /\ RealizedOutput(m, ore_vars) = <<mineral_requirements[m], 1>>
    /\ \E o \in Ores : ore_vars[o][2] # 1

====
